---- MODULE Spec2Model ----
(***************************************************************************)
(* The copy-writer content pipeline: ContentPipeline (process_request,     *)
(* process_feedback, get_content_status), the ContentHistory and           *)
(* UserPreferences stores, and the response parsers of the planner and the *)
(* quality checker.                                                        *)
(*                                                                         *)
(* Text is a sequence of tokens.  A token is one character ("0".."9", ".", *)
(* "-", ",", " ") or an opaque run of other characters ("a", "YES", ...).  *)
(* A response line is [head |-> h, rest |-> text]: h is the prefix the     *)
(* parsers test with startswith (or "" for any other line) and rest is the *)
(* text after it, which never holds that prefix again.                     *)
(*                                                                         *)
(* A score is a decimal number kept as an integer count of ScoreUnit-ths,  *)
(* so 75 is 75 * ScoreUnit.                                                *)
(***************************************************************************)
EXTENDS Integers, Sequences, FiniteSets, TLC

VARIABLES
    history,          \* ContentHistory.history: the in-memory list of sessions
    file,             \* content of data/content_history.json
    preferences,      \* UserPreferences.preferences
    prefsFile,        \* content of data/user_preferences.json
    clock,            \* datetime.now(): the number of readings so far
    nextId,           \* uuid.uuid4(): the next fresh id
    pc,               \* position of process_request: the stage to run next
    request,          \* the ContentRequest of the call in progress
    routing_decision, \* locals of process_request
    plan,
    draft,
    quality_report,
    stages,           \* the stages invoked so far by the call in progress
    last,             \* the last completed call: [op, args, ret]
    call,             \* the pending call of a function under test: [op, args]
    peer              \* the history list of a second ContentHistory on the same file

vars == <<history, file, preferences, prefsFile, clock, nextId, pc, request,
          routing_decision, plan, draft, quality_report, stages, last, call, peer>>

\* ------------------------------------------------------------------ bounds

MaxScoreLen == 4     \* tokens in a score text
MaxPlanLines == 3    \* lines in a plan response under test
MaxQualityLines == 3 \* lines in a quality response under test
MaxClock == 4        \* readings of datetime.now() by the handlers
MaxMixed == 2        \* sessions of any kind in a history under test
MaxRun == 9          \* successful sessions in a row in a history under test

\* ------------------------------------------------------------------ values

None == <<>>

Get(d, k, default) == IF k \in DOMAIN d THEN d[k] ELSE default

Return(v) == [ok |-> TRUE, value |-> v]
Raise(e) == [ok |-> FALSE, error |-> e]

\* ------------------------------------------------------------------ text

Digit == {"0", "1", "2", "3", "4", "5", "6", "7", "8", "9"}

DigitValue(c) ==
    CASE c = "0" -> 0 [] c = "1" -> 1 [] c = "2" -> 2 [] c = "3" -> 3
      [] c = "4" -> 4 [] c = "5" -> 5 [] c = "6" -> 6 [] c = "7" -> 7
      [] c = "8" -> 8 [] c = "9" -> 9

\* str.isdigit(): the decimal digits and also digit-like characters such as
\* the superscript two, written "sup2", which int() rejects.
IsDigitChar(c) == c \in Digit \cup {"sup2"}

RECURSIVE LStrip(_)
LStrip(text) ==
    IF text # <<>> /\ Head(text) = " " THEN LStrip(Tail(text)) ELSE text

RECURSIVE RStrip(_)
RStrip(text) ==
    IF text # <<>> /\ text[Len(text)] = " "
    THEN RStrip(SubSeq(text, 1, Len(text) - 1))
    ELSE text

\* str.strip()
Strip(text) == RStrip(LStrip(text))

\* "".join(filter(str.isdigit, text))
RECURSIVE FilterDigits(_)
FilterDigits(text) ==
    IF text = <<>> THEN <<>>
    ELSE IF IsDigitChar(Head(text))
         THEN <<Head(text)>> \o FilterDigits(Tail(text))
         ELSE FilterDigits(Tail(text))

\* int(digits) for a non-empty text of decimal digits
RECURSIVE IntOf(_)
IntOf(digits) ==
    IF digits = <<>> THEN 0
    ELSE 10 * IntOf(SubSeq(digits, 1, Len(digits) - 1))
         + DigitValue(digits[Len(digits)])

\* text.split(sep): the pieces between the occurrences of sep
RECURSIVE Split(_, _)
Split(text, sep) ==
    IF \A i \in 1..Len(text) : text[i] # sep THEN <<text>>
    ELSE LET i == CHOOSE i \in 1..Len(text) :
                      text[i] = sep /\ \A j \in 1..(i - 1) : text[j] # sep
         IN  <<SubSeq(text, 1, i - 1)>> \o Split(SubSeq(text, i + 1, Len(text)), sep)

\* [x.strip() for x in parts]
StripAll(parts) == [i \in 1..Len(parts) |-> Strip(parts[i])]

\* text.replace(tok, ""): every occurrence goes, not only a leading one
RECURSIVE Remove(_, _)
Remove(text, tok) ==
    IF text = <<>> THEN <<>>
    ELSE IF Head(text) = tok THEN Remove(Tail(text), tok)
    ELSE <<Head(text)>> \o Remove(Tail(text), tok)

\* str.upper(), token by token
UpperTok(t) ==
    CASE t = "yes" -> "YES" [] t = "no" -> "NO" [] t = "true" -> "TRUE"
      [] t = "approved" -> "APPROVED" [] OTHER -> t

Upper(text) == [i \in 1..Len(text) |-> UpperTok(text[i])]

\* ------------------------------------------------------------------ scores

FracDigits == MaxScoreLen - 2
ScoreUnit == 10 ^ FracDigits

Score(n) == n * ScoreUnit

\* the end (exclusive) of the longest run of digits starting at i
RECURSIVE DigitRunEnd(_, _)
DigitRunEnd(text, i) ==
    IF i <= Len(text) /\ text[i] \in Digit THEN DigitRunEnd(text, i + 1) ELSE i

\* re.findall(r"\d+(?:\.\d+)?", text): the matches, left to right, each as
\* [int |-> digits, frac |-> digits]
RECURSIVE FindNumbers(_, _)
FindNumbers(text, from) ==
    IF \A i \in from..Len(text) : text[i] \notin Digit THEN <<>>
    ELSE LET i == CHOOSE i \in from..Len(text) :
                      text[i] \in Digit /\ \A j \in from..(i - 1) : text[j] \notin Digit
             j == DigitRunEnd(text, i)
             hasFrac == /\ j + 1 <= Len(text)
                        /\ text[j] = "."
                        /\ text[j + 1] \in Digit
             k == IF hasFrac THEN DigitRunEnd(text, j + 1) ELSE j
         IN  <<[int |-> SubSeq(text, i, j - 1),
                frac |-> IF hasFrac THEN SubSeq(text, j + 1, k - 1) ELSE <<>>]>>
             \o FindNumbers(text, k)

\* float(number), in ScoreUnit-ths
FloatOf(number) ==
    IntOf(number.int) * ScoreUnit
    + IntOf(number.frac) * (10 ^ (FracDigits - Len(number.frac)))

Min(a, b) == IF a <= b THEN a ELSE b
Max(a, b) == IF a >= b THEN a ELSE b

\* QualityChecker._extract_score
ExtractScoreUnclamped(text) ==
    LET numbers == FindNumbers(text, 1)
    IN  IF numbers # <<>> THEN FloatOf(numbers[1]) ELSE Score(75)

ExtractScoreLast(text) ==
    LET numbers == FindNumbers(text, 1)
    IN  IF numbers # <<>>
        THEN Max(0, Min(Score(100), FloatOf(numbers[Len(numbers)])))
        ELSE Score(75)

ExtractScore(text) ==
    LET numbers == FindNumbers(text, 1)
    IN  IF numbers # <<>>
        THEN Max(0, Min(Score(100), FloatOf(numbers[1])))
        ELSE Score(75)

\* ------------------------------------------------------------------ SEO

\* len(text): an opaque token counts the characters it stands for
TokenLen(t) ==
    CASE t = "Content about " -> 14
      [] t = "a title of forty characters" -> 40
      [] OTHER -> 1

RECURSIVE TextLen(_)
TextLen(text) ==
    IF text = <<>> THEN 0 ELSE TokenLen(Head(text)) + TextLen(Tail(text))

\* A content text is kept as what the code reads from it:
\* [words |-> len(content.split()), headers |-> a line starts with #, lists |->
\* a line starts with * or a number followed by a dot occurs].
\* SEOAnalyzer.analyze_content; keyword points need the keywords to occur in
\* the title or the content, which `inTitle` and `density` say
\* ("none", "good" for 1-3%, "some" for any other positive density).
AnalyzeContent(content, title, keywords, inTitle, density) ==
    LET titlePts == IF title # <<>> /\ TextLen(title) >= 30 /\ TextLen(title) <= 60
                    THEN 15 ELSE 0
        kwTitlePts == IF keywords # <<>> /\ inTitle THEN 5 ELSE 0
        lenPts == (IF content.words >= 300 THEN 10 ELSE 0)
                  + (IF content.words >= 1000 THEN 5 ELSE 0)
        kwPts == IF keywords # <<>> /\ content.words > 0
                 THEN (IF density = "good" THEN 25
                       ELSE IF density = "some" THEN 15 ELSE 0)
                 ELSE 0
        structPts == (IF content.headers THEN 10 ELSE 0)
                     + (IF content.lists THEN 10 ELSE 0)
        score == titlePts + kwTitlePts + lenPts + kwPts + structPts + 20
    IN  Min(score, 100)

\* ------------------------------------------------------------------ quality checker

QualityDataDefaultApproved ==
    [overall_score |-> Score(75),
     content_quality_score |-> Score(75),
     seo_score |-> Score(75),
     readability_score |-> Score(75),
     brand_voice_score |-> Score(75),
     technical_quality_score |-> Score(75),
     issues |-> <<>>,
     suggestions |-> <<>>,
     approved |-> TRUE]

QualityDataDefault ==
    [overall_score |-> Score(75),
     content_quality_score |-> Score(75),
     seo_score |-> Score(75),
     readability_score |-> Score(75),
     brand_voice_score |-> Score(75),
     technical_quality_score |-> Score(75),
     issues |-> <<>>,
     suggestions |-> <<>>,
     approved |-> FALSE]

ApprovedWords == {<<"YES">>, <<"TRUE">>, <<"1">>, <<"APPROVED">>}

ParseQualityLineOneList(st, line) ==
    LET rest == Strip(line.rest)
        h == line.head
    IN  IF h = "" /\ rest = <<>> THEN st
        ELSE IF h = "OVERALL_SCORE:"
             THEN [st EXCEPT !.data.overall_score =
                                 ExtractScore(Strip(Remove(rest, "OVERALL_SCORE:")))]
        ELSE IF h = "Content Quality:"
             THEN [st EXCEPT !.data.content_quality_score = ExtractScore(rest)]
        ELSE IF h = "SEO Optimization:"
             THEN [st EXCEPT !.data.seo_score = ExtractScore(rest)]
        ELSE IF h = "Readability:"
             THEN [st EXCEPT !.data.readability_score = ExtractScore(rest)]
        ELSE IF h = "Brand Voice:"
             THEN [st EXCEPT !.data.brand_voice_score = ExtractScore(rest)]
        ELSE IF h = "Technical Quality:"
             THEN [st EXCEPT !.data.technical_quality_score = ExtractScore(rest)]
        ELSE IF h = "ISSUES:" /\ rest = <<>>
             THEN [st EXCEPT !.section = "issues"]
        ELSE IF h = "SUGGESTIONS:" /\ rest = <<>>
             THEN [st EXCEPT !.section = "suggestions"]
        ELSE IF h = "APPROVED:"
             THEN [st EXCEPT !.data.approved =
                                 Upper(Strip(Remove(rest, "APPROVED:"))) \in ApprovedWords]
        ELSE IF st.section # "" /\ h = "- " /\ rest # <<>>
             THEN [st EXCEPT !.data.issues = Append(@, rest)]
        ELSE st

\* one iteration of the loop of _parse_quality_response;
\* st = [data |-> quality_data, section |-> current_section ("" for None)].
\* A "- " line with nothing but blanks after the dash is "-" once stripped
\* and is no list item.
ParseQualityLine(st, line) ==
    LET rest == Strip(line.rest)
        h == line.head
    IN  IF h = "" /\ rest = <<>> THEN st
        ELSE IF h = "OVERALL_SCORE:"
             THEN [st EXCEPT !.data.overall_score =
                                 ExtractScore(Strip(Remove(rest, "OVERALL_SCORE:")))]
        ELSE IF h = "Content Quality:"
             THEN [st EXCEPT !.data.content_quality_score = ExtractScore(rest)]
        ELSE IF h = "SEO Optimization:"
             THEN [st EXCEPT !.data.seo_score = ExtractScore(rest)]
        ELSE IF h = "Readability:"
             THEN [st EXCEPT !.data.readability_score = ExtractScore(rest)]
        ELSE IF h = "Brand Voice:"
             THEN [st EXCEPT !.data.brand_voice_score = ExtractScore(rest)]
        ELSE IF h = "Technical Quality:"
             THEN [st EXCEPT !.data.technical_quality_score = ExtractScore(rest)]
        ELSE IF h = "ISSUES:" /\ rest = <<>>
             THEN [st EXCEPT !.section = "issues"]
        ELSE IF h = "SUGGESTIONS:" /\ rest = <<>>
             THEN [st EXCEPT !.section = "suggestions"]
        ELSE IF h = "APPROVED:"
             THEN [st EXCEPT !.data.approved =
                                 Upper(Strip(Remove(rest, "APPROVED:"))) \in ApprovedWords]
        ELSE IF st.section # "" /\ h = "- " /\ rest # <<>>
             THEN IF st.section = "issues"
                  THEN [st EXCEPT !.data.issues = Append(@, rest)]
                  ELSE IF st.section = "suggestions"
                       THEN [st EXCEPT !.data.suggestions = Append(@, rest)]
                       ELSE st
        ELSE st

RECURSIVE ParseQualityLines(_, _)
ParseQualityLines(st, lines) ==
    IF lines = <<>> THEN st
    ELSE ParseQualityLines(ParseQualityLine(st, Head(lines)), Tail(lines))

\* QualityChecker._parse_quality_response
ParseQualityResponse(response) ==
    ParseQualityLines([data |-> QualityDataDefault, section |-> ""], response).data

\* QualityChecker.check_quality: llm is what self.llm.invoke does, Return(the
\* response lines) or Raise(error).  getattr(draft, "target_keywords", [])
\* is [] for every ContentDraft.
CheckQualityWithTags(d, llm) ==
    LET keywords == IF d.tags # {} THEN <<"k">> ELSE <<>>
        seo_score == AnalyzeContent(d.content, d.title, keywords, TRUE, "good")
    IN  IF ~llm.ok THEN Raise(llm.error)
        ELSE LET quality_data == ParseQualityResponse(llm.value)
             IN  Return([request_id |-> d.request_id,
                         overall_score |-> Get(quality_data, "overall_score", Score(75)),
                         readability_score |-> d.readability_score,
                         seo_score |-> seo_score,
                         brand_voice_score |-> Get(quality_data, "brand_voice_score", Score(80)),
                         issues |-> Get(quality_data, "issues", <<>>),
                         suggestions |-> Get(quality_data, "suggestions", <<>>),
                         approved |-> Get(quality_data, "approved", FALSE)])

CheckQuality(d, llm) ==
    LET seo_score == AnalyzeContent(d.content, d.title, <<>>, FALSE, "none")
    IN  IF ~llm.ok THEN Raise(llm.error)
        ELSE LET quality_data == ParseQualityResponse(llm.value)
             IN  Return([request_id |-> d.request_id,
                         overall_score |-> Get(quality_data, "overall_score", Score(75)),
                         readability_score |-> d.readability_score,
                         seo_score |-> seo_score,
                         brand_voice_score |-> Get(quality_data, "brand_voice_score", Score(80)),
                         issues |-> Get(quality_data, "issues", <<>>),
                         suggestions |-> Get(quality_data, "suggestions", <<>>),
                         approved |-> Get(quality_data, "approved", FALSE)])

\* ------------------------------------------------------------------ router

Put(d, k, v) == (k :> v) @@ d

\* int("".join(filter(str.isdigit, text)) or default): int() raises ValueError
\* on a digit-like character that is no decimal digit
IntOrDefault(text, default) ==
    LET digits == FilterDigits(text)
    IN  IF digits = <<>> THEN Return(default)
        ELSE IF \E i \in 1..Len(digits) : digits[i] \notin Digit
             THEN Raise("ValueError: invalid literal for int()")
             ELSE Return(IntOf(digits))

\* key.strip().lower().replace(" ", "_") of the text before the first colon
RouterKey(h) ==
    CASE h = "ROUTE_TO:" -> "route_to"
      [] h = "COMPLEXITY:" -> "complexity"
      [] h = "TOOLS_NEEDED:" -> "tools_needed"
      [] h = "ESTIMATED_TIME:" -> "estimated_time"
      [] OTHER -> "other"

\* ContentRouter._parse_routing_response: a line whose head is "" holds no colon
RECURSIVE ParseRoutingLines(_, _)
ParseRoutingLines(decision, lines) ==
    IF lines = <<>> THEN Return(decision)
    ELSE LET line == Head(lines)
             key == RouterKey(line.head)
             value == Strip(line.rest)
         IN  IF line.head = "" THEN ParseRoutingLines(decision, Tail(lines))
             ELSE IF key = "tools_needed"
                  THEN ParseRoutingLines(
                           Put(decision, key, StripAll(Split(value, ","))), Tail(lines))
             ELSE IF key = "estimated_time"
                  THEN LET n == IntOrDefault(value, 30)
                       IN  IF n.ok
                           THEN ParseRoutingLines(Put(decision, key, n.value), Tail(lines))
                           ELSE n
             ELSE ParseRoutingLines(Put(decision, key, value), Tail(lines))

\* ContentRouter.route_request
RouteRequest(req, llm) ==
    IF ~llm.ok THEN Raise(llm.error) ELSE ParseRoutingLines(<<>>, llm.value)

\* ------------------------------------------------------------------ planner

NumberedHeads == {"1.", "2.", "3.", "4.", "5.", "6.", "7.", "8."}

\* the WORD_COUNT_TARGET branch of _parse_plan_response
ParseWordCount(count) ==
    LET count_parts == Split(count, "-")
    IN  IF Len(count_parts) = 2
        THEN LET min_count == IntOrDefault(count_parts[1], 800)
                 max_count == IntOrDefault(count_parts[2], 1000)
             IN  IF ~min_count.ok THEN min_count
                 ELSE IF ~max_count.ok THEN max_count
                 ELSE Return((min_count.value + max_count.value) \div 2)
        ELSE IntOrDefault(count, 800)

\* one iteration of the loop of _parse_plan_response;
\* st = [data |-> plan_data, section |-> current_section, outline |->
\* outline_points, error |-> the exception raised, "" for none]
ParsePlanLine(st, line) ==
    LET rest == Strip(line.rest)
        h == line.head
    IN  IF st.error # "" THEN st
        ELSE IF h = "" /\ rest = <<>> THEN st
        ELSE IF h = "TITLE:" THEN [st EXCEPT !.data = Put(@, "title", rest)]
        ELSE IF h = "OUTLINE:" THEN [st EXCEPT !.section = "outline"]
        ELSE IF h = "TARGET_KEYWORDS:"
             THEN [st EXCEPT !.data = Put(@, "target_keywords", StripAll(Split(rest, ",")))]
        ELSE IF h = "KEY_MESSAGES:"
             THEN [st EXCEPT !.data = Put(@, "key_messages", StripAll(Split(rest, ",")))]
        ELSE IF h = "WORD_COUNT_TARGET:"
             THEN LET n == ParseWordCount(rest)
                  IN  IF n.ok
                      THEN [st EXCEPT !.data = Put(@, "word_count_target", n.value)]
                      ELSE [st EXCEPT !.error = n.error]
        ELSE IF h = "TONE_NOTES:" THEN [st EXCEPT !.data = Put(@, "tone_notes", rest)]
        ELSE IF st.section = "outline" /\ h \in NumberedHeads
             THEN [st EXCEPT !.outline = Append(@, rest)]
        ELSE st

RECURSIVE ParsePlanLines(_, _)
ParsePlanLines(st, lines) ==
    IF lines = <<>> THEN st
    ELSE ParsePlanLines(ParsePlanLine(st, Head(lines)), Tail(lines))

\* ContentPlanner._parse_plan_response
ParsePlanResponse(response) ==
    LET st == ParsePlanLines(
                  [data |-> <<>>, section |-> "", outline |-> <<>>, error |-> ""],
                  response)
    IN  IF st.error # "" THEN Raise(st.error)
        ELSE Return(IF st.outline # <<>>
                    THEN Put(st.data, "outline", st.outline)
                    ELSE st.data)

\* ContentPlanner._enhance_keywords: extracted is what
\* SEOAnalyzer.extract_keywords(topic) gives
EnhanceKeywords(existing_keywords, extracted) ==
    IF existing_keywords = <<>>
    THEN SubSeq(extracted, 1, Min(5, Len(extracted)))
    ELSE existing_keywords

\* x or default, for a text x (None and "" are both <<>>)
OrText(x, default) == IF x # <<>> THEN x ELSE default

\* the ContentPlan(...) construction of create_plan; uuid is str(uuid.uuid4())
BuildPlanFixedTone(req, enhanced_keywords, plan_data, uuid) ==
    [request_id |-> uuid,
     title |-> Get(plan_data, "title", <<"Content about ">> \o req.topic),
     outline |-> Get(plan_data, "outline", <<>>),
     target_keywords |-> enhanced_keywords,
     word_count_target |-> Get(plan_data, "word_count_target", 800),
     tone |-> Get(plan_data, "tone_notes", <<"professional">>),
     key_messages |-> Get(plan_data, "key_messages", <<>>)]

BuildPlanFixedId(req, enhanced_keywords, plan_data, uuid) ==
    [request_id |-> 0,
     title |-> Get(plan_data, "title", <<"Content about ">> \o req.topic),
     outline |-> Get(plan_data, "outline", <<>>),
     target_keywords |-> enhanced_keywords,
     word_count_target |-> Get(plan_data, "word_count_target", 800),
     tone |-> Get(plan_data, "tone_notes", OrText(req.tone, <<"professional">>)),
     key_messages |-> Get(plan_data, "key_messages", <<>>)]

BuildPlanLlmKeywords(req, enhanced_keywords, plan_data, uuid) ==
    [request_id |-> uuid,
     title |-> Get(plan_data, "title", <<"Content about ">> \o req.topic),
     outline |-> Get(plan_data, "outline", <<>>),
     target_keywords |-> Get(plan_data, "target_keywords", enhanced_keywords),
     word_count_target |-> Get(plan_data, "word_count_target", 800),
     tone |-> Get(plan_data, "tone_notes", OrText(req.tone, <<"professional">>)),
     key_messages |-> Get(plan_data, "key_messages", <<>>)]

BuildPlan(req, enhanced_keywords, plan_data, uuid) ==
    [request_id |-> uuid,
     title |-> Get(plan_data, "title", <<"Content about ">> \o req.topic),
     outline |-> Get(plan_data, "outline", <<>>),
     target_keywords |-> enhanced_keywords,
     word_count_target |-> Get(plan_data, "word_count_target", 800),
     tone |-> Get(plan_data, "tone_notes", OrText(req.tone, <<"professional">>)),
     key_messages |-> Get(plan_data, "key_messages", <<>>)]

\* ContentPlanner.create_plan
CreatePlan(req, extracted, llm, uuid) ==
    LET enhanced_keywords == EnhanceKeywords(req.seo_keywords, extracted)
    IN  IF ~llm.ok THEN Raise(llm.error)
        ELSE LET plan_data == ParsePlanResponse(llm.value)
             IN  IF ~plan_data.ok THEN plan_data
                 ELSE Return(BuildPlan(req, enhanced_keywords, plan_data.value, uuid))

\* ------------------------------------------------------------------ writer

RECURSIVE SeqToSet(_)
SeqToSet(seq) == IF seq = <<>> THEN {} ELSE {Head(seq)} \cup SeqToSet(Tail(seq))

\* ContentWriter.write_content: llm.value is the response text, stripped;
\* tags is list(set(keywords)), kept as the set; readability is what
\* ContentTools.calculate_readability gives
WriteContentOwnId(p, llm, readability) ==
    IF ~llm.ok THEN Raise(llm.error)
    ELSE Return([request_id |-> p.request_id + 100,
                 title |-> p.title,
                 content |-> llm.value,
                 tags |-> SeqToSet(p.target_keywords),
                 word_count |-> llm.value.words,
                 readability_score |-> readability])

WriteContent(p, llm, readability) ==
    IF ~llm.ok THEN Raise(llm.error)
    ELSE Return([request_id |-> p.request_id,
                 title |-> p.title,
                 content |-> llm.value,
                 tags |-> SeqToSet(p.target_keywords),
                 word_count |-> llm.value.words,
                 readability_score |-> readability])

\* ------------------------------------------------------------------ stores

\* A storage file: [state |-> "missing" | "json" | "partial", data |-> what
\* json.load gives when state = "json"].
MissingFile == [state |-> "missing", data |-> <<>>]
PartialFile == [state |-> "partial", data |-> <<>>]
JsonFile(data) == [state |-> "json", data |-> data]

\* what open(path, "w") + json.dump(data, f) leave in the file and raise:
\* io = "ok", "fail_open" (makedirs or open raises, the file is untouched) or
\* "fail_write" (the file is truncated and the dump is cut short)
WriteFile(f, data, io) ==
    CASE io = "ok" -> [file |-> JsonFile(data), error |-> ""]
      [] io = "fail_open" -> [file |-> f, error |-> "OSError: open"]
      [] io = "fail_write" -> [file |-> PartialFile, error |-> "OSError: write"]

IoOutcomes == {"ok", "fail_open", "fail_write"}

\* ContentHistory._load_history
LoadHistory(f) == IF f.state = "json" THEN f.data ELSE <<>>

\* the value of a member of the str-Enum ContentType: what json.dump writes
\* for it and what == compares it by
EnumValue(x) ==
    CASE x = "ContentType.BLOG_POST" -> "blog_post"
      [] x = "ContentType.SOCIAL_MEDIA" -> "social_media"
      [] OTHER -> x

\* what json.load gives back from the text json.dump(h) writes: the request
\* of a session holds the content type as a plain string; the other values
\* modelled (texts, numbers, booleans, None, lists, dicts with string keys)
\* come back as they were
JsonDump(h) ==
    [i \in 1..Len(h) |-> [h[i] EXCEPT !.request.content_type = EnumValue(@)]]

\* h1 == h2 for two history lists
PyEqual(h1, h2) == JsonDump(h1) = JsonDump(h2)

\* ContentHistory._save_history
SaveHistoryMerged(h, f, io) ==
    LET old == LoadHistory(f)
        new == JsonDump(h)
        kept == SelectSeq(old, LAMBDA s : \A i \in 1..Len(new) : new[i] # s)
    IN  WriteFile(f, kept \o new, io)

SaveHistoryAppend(h, f, io) ==
    WriteFile(f,
              IF h = <<>> THEN <<>> ELSE LoadHistory(f) \o JsonDump(<<h[Len(h)]>>),
              io)

SaveHistory(h, f, io) == WriteFile(f, JsonDump(h), io)

\* the session dict of save_content_session
NewSessionUnapproved(req, d, qr, approved, now) ==
    [timestamp |-> now,
     request |-> req,
     draft |-> d,
     quality_report |-> qr,
     approved |-> FALSE,
     feedback |-> None]

NewSession(req, d, qr, approved, now) ==
    [timestamp |-> now,
     request |-> req,
     draft |-> d,
     quality_report |-> qr,
     approved |-> approved,
     feedback |-> None]

\* ContentHistory.save_content_session: the new in-memory list, the file and
\* the exception raised ("" for none)
SaveContentSessionFront(h, f, req, d, qr, approved, now, io) ==
    LET h2 == <<NewSession(req, d, qr, approved, now)>> \o h
        w == SaveHistory(h2, f, io)
    IN  [history |-> h2, file |-> w.file, error |-> w.error]

SaveContentSession(h, f, req, d, qr, approved, now, io) ==
    LET h2 == Append(h, NewSession(req, d, qr, approved, now))
        w == SaveHistory(h2, f, io)
    IN  [history |-> h2, file |-> w.file, error |-> w.error]

\* the sessions whose draft carries request_id
Matching(h, request_id) ==
    {i \in 1..Len(h) : h[i].draft.request_id = request_id}

SetMin(S) == CHOOSE i \in S : \A j \in S : i <= j
SetMax(S) == CHOOSE i \in S : \A j \in S : i >= j

\* ContentHistory.add_feedback: feedback is a dict no session holds yet
AddFeedbackLastMatch(h, f, request_id, feedback, now, io) ==
    LET m == Matching(h, request_id)
        h2 == IF m = {} THEN h
              ELSE [h EXCEPT ![SetMax(m)].feedback = Put(feedback, "timestamp", now)]
        w == SaveHistory(h2, f, io)
    IN  [history |-> h2, file |-> w.file, error |-> w.error]

AddFeedbackSavesOnMatch(h, f, request_id, feedback, now, io) ==
    LET m == Matching(h, request_id)
        h2 == IF m = {} THEN h
              ELSE [h EXCEPT ![SetMin(m)].feedback = Put(feedback, "timestamp", now)]
        w == IF m = {} THEN [file |-> f, error |-> ""] ELSE SaveHistory(h2, f, io)
    IN  [history |-> h2, file |-> w.file, error |-> w.error]

AddFeedbackApproves(h, f, request_id, feedback, now, io) ==
    LET m == Matching(h, request_id)
        h2 == IF m = {} THEN h
              ELSE [h EXCEPT ![SetMin(m)].feedback = Put(feedback, "timestamp", now),
                             ![SetMin(m)].approved = Get(feedback, "approved", @)]
        w == SaveHistory(h2, f, io)
    IN  [history |-> h2, file |-> w.file, error |-> w.error]

AddFeedback(h, f, request_id, feedback, now, io) ==
    LET m == Matching(h, request_id)
        h2 == IF m = {} THEN h
              ELSE [h EXCEPT ![SetMin(m)].feedback = Put(feedback, "timestamp", now)]
        w == SaveHistory(h2, f, io)
    IN  [history |-> h2, file |-> w.file, error |-> w.error]

\* UserPreferences._load_preferences
DefaultPreferences == [default_tone |-> "professional", preferred_length |-> "medium"]

LoadPreferences(f) == IF f.state = "json" THEN f.data ELSE DefaultPreferences

\* UserPreferences.learn_from_feedback
LearnFromFeedbackLatestTone(prefs, f, feedback, io) ==
    LET p2 == IF Get(feedback, "approved", FALSE) /\ "tone" \in DOMAIN feedback
              THEN Put(prefs, "successful_tones", <<feedback["tone"]>>)
              ELSE prefs
        w == WriteFile(f, p2, io)
    IN  [preferences |-> p2, file |-> w.file, error |-> w.error]

LearnFromFeedback(prefs, f, feedback, io) ==
    LET p2 == IF Get(feedback, "approved", FALSE) /\ "tone" \in DOMAIN feedback
              THEN Put(prefs, "successful_tones",
                       Append(Get(prefs, "successful_tones", <<>>), feedback["tone"]))
              ELSE prefs
        w == WriteFile(f, p2, io)
    IN  [preferences |-> p2, file |-> w.file, error |-> w.error]

\* ContentPipeline.get_content_status
GetContentStatusLastMatch(h, request_id) ==
    LET m == Matching(h, request_id)
    IN  IF m = {} THEN [found |-> FALSE]
        ELSE LET session == h[SetMax(m)]
             IN  [found |-> TRUE,
                  status |-> IF Get(session, "approved", FALSE)
                             THEN "approved" ELSE "pending_review",
                  quality_score |-> session.quality_report.overall_score,
                  feedback |-> Get(session, "feedback", None),
                  created_at |-> session.timestamp]

GetContentStatus(h, request_id) ==
    LET m == Matching(h, request_id)
    IN  IF m = {} THEN [found |-> FALSE]
        ELSE LET session == h[SetMin(m)]
             IN  [found |-> TRUE,
                  status |-> IF Get(session, "approved", FALSE)
                             THEN "approved" ELSE "pending_review",
                  quality_score |-> session.quality_report.overall_score,
                  feedback |-> Get(session, "feedback", None),
                  created_at |-> session.timestamp]

\* successful[-10:]
SuccessfulLimit == 10

\* s[-n:]
LastN(s, n) == SubSeq(s, Max(1, Len(s) - n + 1), Len(s))

\* ContentHistory.get_successful_content; content_type is None or a text of
\* one token, the name of the type.  A ContentType member equals the string
\* that is its value.
GetSuccessfulContentAbove(h, content_type) ==
    LET Successful(session) ==
            /\ Get(session, "approved", FALSE)
            /\ session.quality_report.overall_score > Score(80)
            /\ \/ content_type = None
               \/ <<EnumValue(session.request.content_type)>> = content_type
    IN  LastN(SelectSeq(h, Successful), SuccessfulLimit)

GetSuccessfulContent(h, content_type) ==
    LET Successful(session) ==
            /\ Get(session, "approved", FALSE)
            /\ session.quality_report.overall_score >= Score(80)
            /\ \/ content_type = None
               \/ <<EnumValue(session.request.content_type)>> = content_type
    IN  LastN(SelectSeq(h, Successful), SuccessfulLimit)

\* the GET /content/{request_id}/status endpoint of main.py: the HTTP status
\* code and the body
StatusEndpoint(h, request_id) ==
    LET status == GetContentStatus(h, request_id)
    IN  IF ~status.found
        THEN [code |-> 404, detail |-> "Content not found"]
        ELSE [code |-> 200, body |-> status]

\* ------------------------------------------------------------------ inputs of the pipeline

Line(h, rest) == [head |-> h, rest |-> rest]

ApiError == "APIConnectionError: connection error"

\* ContentRequest values as main.py builds them; request_id is filled in by
\* the default_factory when the request is created
Requests ==
    {[topic |-> <<"a">>, content_type |-> "ContentType.BLOG_POST", tone |-> <<>>,
      seo_keywords |-> <<>>],
     [topic |-> <<"b">>, content_type |-> "ContentType.SOCIAL_MEDIA", tone |-> <<"casual">>,
      seo_keywords |-> <<"k">>]}

\* what self.llm.invoke gives the router
RouterReplies ==
    {Raise(ApiError),
     Return(<<Line("ROUTE_TO:", <<" ", "direct_write">>)>>),
     Return(<<Line("ROUTE_TO:", <<" ", "full_pipeline">>),
              Line("ESTIMATED_TIME:", <<" ", "5">>)>>),
     Return(<<Line("ESTIMATED_TIME:", <<" ", "5", "sup2">>)>>)}

\* what SEOAnalyzer.extract_keywords gives the planner
ExtractedKeywords == {<<"k1", "k2">>}

\* what self.llm.invoke gives the planner
PlannerReplies ==
    {Raise(ApiError),
     Return(<<>>),
     Return(<<Line("TITLE:", <<" ", "a title of forty characters">>),
              Line("OUTLINE:", <<>>),
              Line("1.", <<" ", "p">>),
              Line("WORD_COUNT_TARGET:", <<" ", "5", "0", "0">>)>>),
     Return(<<Line("WORD_COUNT_TARGET:", <<" ", "5", "sup2">>)>>)}

\* what self.llm.invoke gives the writer
WriterReplies ==
    {Raise(ApiError),
     Return([words |-> 350, headers |-> TRUE, lists |-> FALSE])}

\* what ContentTools.calculate_readability gives
Readabilities == {60}

\* what self.llm.invoke gives the quality checker
QualityReplies ==
    {Raise(ApiError),
     Return(<<>>),
     Return(<<Line("OVERALL_SCORE:", <<" ", "8", "5">>),
              Line("APPROVED:", <<" ", "YES">>)>>),
     Return(<<Line("OVERALL_SCORE:", <<" ", "1", "5", "0">>),
              Line("ISSUES:", <<>>),
              Line("- ", <<"i">>),
              Line("APPROVED:", <<" ", "NO">>)>>)}

\* the feedback dicts a caller passes to process_feedback
Feedbacks ==
    {[approved |-> TRUE],
     [approved |-> FALSE],
     [approved |-> TRUE, tone |-> "casual"],
     [quality_rating |-> 4]}

\* ------------------------------------------------------------------ process_request

Idle == pc = "idle"

NoCall == [op |-> "none"]

\* the order of the steps of process_request
StageAfterRetry(stage) ==
    CASE stage = "route" -> "plan"
      [] stage = "plan" -> "write"
      [] stage = "write" -> "check"
      [] stage = "check" -> "check"
      [] stage = "save" -> "idle"

StageAfter(stage) ==
    CASE stage = "route" -> "plan"
      [] stage = "plan" -> "write"
      [] stage = "write" -> "check"
      [] stage = "check" -> "save"
      [] stage = "save" -> "idle"

\* the except branch of process_request
FailurePayloadGeneric(e) == [success |-> FALSE, error |-> "Content generation failed"]

FailurePayload(e) == [success |-> FALSE, error |-> e]

\* the return of the try branch of process_request
SuccessPayloadRequestId(req, rd, p, d, qr) ==
    [success |-> TRUE,
     request_id |-> req.request_id,
     routing_decision |-> rd,
     plan |-> p,
     draft |-> d,
     quality_report |-> qr,
     requires_human_review |-> ~qr.approved]

SuccessPayloadReviewInverted(req, rd, p, d, qr) ==
    [success |-> TRUE,
     request_id |-> d.request_id,
     routing_decision |-> rd,
     plan |-> p,
     draft |-> d,
     quality_report |-> qr,
     requires_human_review |-> qr.approved]

SuccessPayload(req, rd, p, d, qr) ==
    [success |-> TRUE,
     request_id |-> d.request_id,
     routing_decision |-> rd,
     plan |-> p,
     draft |-> d,
     quality_report |-> qr,
     requires_human_review |-> ~qr.approved]

\* one entry of stages: the stage invoked and the exception it raised
Invoked(name, error) == [stage |-> name, raised |-> error]

\* process_request returns payload (whose timestamp is one more reading of
\* the clock, `reads` counting the readings of the step): its frame is gone
ReturnFromRequest(payload, reads) ==
    /\ pc' = "idle"
    /\ clock' = clock + reads
    /\ last' = [op |-> "process_request", args |-> request, ret |-> payload]
    /\ routing_decision' = None
    /\ plan' = None
    /\ draft' = None
    /\ quality_report' = None

\* a caller builds a ContentRequest and calls pipeline.process_request
StartRequest ==
    /\ Idle
    /\ clock < MaxClock
    /\ \E r \in Requests :
         request' = [request_id |-> nextId] @@ r
    /\ nextId' = nextId + 1
    /\ pc' = "route"
    /\ stages' = <<>>
    /\ UNCHANGED <<history, file, preferences, prefsFile, clock,
                   routing_decision, plan, draft, quality_report, last, call, peer>>

\* Step 1: self.router.route_request(request)
Route ==
    /\ pc = "route"
    /\ \E llm \in RouterReplies :
         LET r == RouteRequest(request, llm)
         IN  /\ stages' = Append(stages, Invoked("route_request", IF r.ok THEN "" ELSE r.error))
             /\ IF r.ok
                THEN /\ routing_decision' = r.value
                     /\ pc' = StageAfter("route")
                     /\ UNCHANGED <<plan, draft, quality_report, last, clock>>
                ELSE ReturnFromRequest(FailurePayload(r.error), 1)
    /\ UNCHANGED <<history, file, preferences, prefsFile, nextId, request, call, peer>>

\* Step 2: self.planner.create_plan(request)
Plan ==
    /\ pc = "plan"
    /\ \E llm \in PlannerReplies, extracted \in ExtractedKeywords :
         LET r == CreatePlan(request, extracted, llm, nextId)
         IN  /\ stages' = Append(stages, Invoked("create_plan", IF r.ok THEN "" ELSE r.error))
             /\ nextId' = IF r.ok THEN nextId + 1 ELSE nextId
             /\ IF r.ok
                THEN /\ plan' = r.value
                     /\ pc' = StageAfter("plan")
                     /\ UNCHANGED <<routing_decision, draft, quality_report, last, clock>>
                ELSE ReturnFromRequest(FailurePayload(r.error), 1)
    /\ UNCHANGED <<history, file, preferences, prefsFile, request, call, peer>>

\* Step 3: self.writer.write_content(plan)
Write ==
    /\ pc = "write"
    /\ \E llm \in WriterReplies, readability \in Readabilities :
         LET r == WriteContent(plan, llm, readability)
         IN  /\ stages' = Append(stages, Invoked("write_content", IF r.ok THEN "" ELSE r.error))
             /\ IF r.ok
                THEN /\ draft' = r.value
                     /\ pc' = StageAfter("write")
                     /\ UNCHANGED <<routing_decision, plan, quality_report, last, clock>>
                ELSE ReturnFromRequest(FailurePayload(r.error), 1)
    /\ UNCHANGED <<history, file, preferences, prefsFile, nextId, request, call, peer>>

\* Step 4: self.quality_checker.check_quality(draft)
Check ==
    /\ pc = "check"
    /\ \E llm \in QualityReplies :
         LET r == CheckQuality(draft, llm)
         IN  /\ stages' = Append(stages, Invoked("check_quality", IF r.ok THEN "" ELSE r.error))
             /\ IF r.ok
                THEN /\ quality_report' = r.value
                     /\ pc' = StageAfter("check")
                     /\ UNCHANGED <<routing_decision, plan, draft, last, clock>>
                ELSE ReturnFromRequest(FailurePayload(r.error), 1)
    /\ UNCHANGED <<history, file, preferences, prefsFile, nextId, request, call, peer>>

\* Step 5: self.content_history.save_content_session(...), then the return
Save ==
    /\ pc = "save"
    /\ \E io \in IoOutcomes :
         LET r == SaveContentSession(history, file, request, draft, quality_report,
                                     quality_report.approved, clock, io)
         IN  /\ stages' = Append(stages, Invoked("save_content_session", r.error))
             /\ history' = r.history
             /\ file' = r.file
             /\ IF r.error = ""
                THEN ReturnFromRequest(
                         SuccessPayload(request, routing_decision, plan, draft, quality_report), 2)
                ELSE ReturnFromRequest(FailurePayload(r.error), 2)
    /\ UNCHANGED <<preferences, prefsFile, nextId, request, call, peer>>

\* ------------------------------------------------------------------ process_feedback, get_content_status

\* the payloads of process_feedback
FeedbackSuccess == [success |-> TRUE, message |-> "Feedback processed and learned from"]

\* the request ids a caller holds: those of the requests it built, those of
\* the payloads it got back, and one that was never issued
CallerIds(h) ==
    {0} \cup {h[i].request.request_id : i \in 1..Len(h)}
        \cup {h[i].draft.request_id : i \in 1..Len(h)}

\* ContentPipeline.process_feedback(request_id, feedback), called between
\* requests: the handlers of main.py run one at a time on the event loop.
\* io1 is the outcome of the history write, io2 of the preferences write.
ProcessFeedback ==
    /\ Idle
    /\ clock < MaxClock
    /\ \E request_id \in CallerIds(history), feedback \in Feedbacks,
          io1 \in IoOutcomes, io2 \in IoOutcomes :
         LET matched == Matching(history, request_id) # {}
             a == AddFeedback(history, file, request_id, feedback, clock, io1)
             approved == Get(feedback, "approved", FALSE)
             l == LearnFromFeedback(preferences, prefsFile, feedback, io2)
             learns == a.error = "" /\ approved
             ret == IF a.error # "" THEN FailurePayload(a.error)
                    ELSE IF approved /\ l.error # "" THEN FailurePayload(l.error)
                    ELSE FeedbackSuccess
         IN  /\ ~learns => io2 = "ok"
             /\ history' = a.history
             /\ file' = a.file
             /\ clock' = clock + (IF matched THEN 2 ELSE 1)
             /\ preferences' = IF learns THEN l.preferences ELSE preferences
             /\ prefsFile' = IF learns THEN l.file ELSE prefsFile
             /\ last' = [op |-> "process_feedback",
                         args |-> [request_id |-> request_id, feedback |-> feedback],
                         io |-> [history |-> io1, preferences |-> io2],
                         ret |-> ret]
    /\ UNCHANGED <<nextId, pc, request, routing_decision, plan, draft,
                   quality_report, stages, call, peer>>

\* ------------------------------------------------------------------ the pipeline

\* ContentPipeline.__init__: the stores load their files
Init ==
    /\ file \in {MissingFile, PartialFile}
    /\ history = LoadHistory(file)
    /\ prefsFile = MissingFile
    /\ preferences = LoadPreferences(prefsFile)
    /\ clock = 0
    /\ nextId = 1
    /\ pc = "idle"
    /\ request = None
    /\ routing_decision = None
    /\ plan = None
    /\ draft = None
    /\ quality_report = None
    /\ stages = <<>>
    /\ last = NoCall
    /\ call = NoCall
    /\ peer = None

Next ==
    \/ StartRequest
    \/ Route
    \/ Plan
    \/ Write
    \/ Check
    \/ Save
    \/ ProcessFeedback

Spec == Init /\ [][Next]_vars

\* ------------------------------------------------------------------ the history store alone

\* the arguments a caller of ContentHistory passes: drafts and reports of a
\* few request ids (two sessions may carry the same id), and a session a
\* former run left in the file
HistoryIds == {1, 2}

SampleRequest(id) ==
    [request_id |-> id, topic |-> <<"a">>, content_type |-> "ContentType.BLOG_POST",
     tone |-> <<>>, seo_keywords |-> <<>>]

SampleDraft(id) ==
    [request_id |-> id, title |-> <<"t">>,
     content |-> [words |-> 350, headers |-> TRUE, lists |-> FALSE],
     tags |-> {}, word_count |-> 350, readability_score |-> 60]

SampleReport(id, approved) ==
    [request_id |-> id, overall_score |-> Score(85), readability_score |-> 60,
     seo_score |-> 40, brand_voice_score |-> Score(75), issues |-> <<>>,
     suggestions |-> <<>>, approved |-> approved]

StoredSession ==
    NewSession(SampleRequest(1), SampleDraft(1), SampleReport(1, TRUE), TRUE, 0)

HistoryFeedbacks == {[approved |-> TRUE], [approved |-> FALSE, tone |-> "casual"]}

\* ContentHistory(): __init__ loads the file
HistoryInit ==
    /\ file \in {MissingFile, PartialFile, JsonFile(JsonDump(<<StoredSession>>))}
    /\ history = LoadHistory(file)
    /\ prefsFile = MissingFile
    /\ preferences = LoadPreferences(prefsFile)
    /\ clock = 1
    /\ nextId = 1
    /\ pc = "idle"
    /\ request = None
    /\ routing_decision = None
    /\ plan = None
    /\ draft = None
    /\ quality_report = None
    /\ stages = <<>>
    /\ last = NoCall
    /\ call = NoCall
    /\ peer = None

\* a call of ContentHistory.save_content_session
SaveContentSessionCall ==
    /\ clock < MaxClock
    /\ \E id \in HistoryIds, approved \in BOOLEAN, io \in IoOutcomes :
         LET r == SaveContentSession(history, file, SampleRequest(id), SampleDraft(id),
                                     SampleReport(id, approved), approved, clock, io)
         IN  /\ history' = r.history
             /\ file' = r.file
             /\ last' = [op |-> "save_content_session",
                         args |-> [request_id |-> id, approved |-> approved],
                         ret |-> r.error]
    /\ clock' = clock + 1
    /\ UNCHANGED <<preferences, prefsFile, nextId, pc, request, routing_decision,
                   plan, draft, quality_report, stages, call, peer>>

\* a call of ContentHistory.add_feedback
AddFeedbackCall ==
    /\ clock < MaxClock
    /\ \E id \in HistoryIds \cup {0}, feedback \in HistoryFeedbacks, io \in IoOutcomes :
         LET r == AddFeedback(history, file, id, feedback, clock, io)
         IN  /\ history' = r.history
             /\ file' = r.file
             /\ clock' = IF Matching(history, id) # {} THEN clock + 1 ELSE clock
             /\ last' = [op |-> "add_feedback",
                         args |-> [request_id |-> id, feedback |-> feedback],
                         ret |-> r.error]
    /\ UNCHANGED <<preferences, prefsFile, nextId, pc, request, routing_decision,
                   plan, draft, quality_report, stages, call, peer>>

\* a GET of the status of a request id, over the history as it stands
GetContentStatusCall ==
    /\ \E id \in HistoryIds \cup {0} :
         last' = [op |-> "get_content_status",
                  args |-> [request_id |-> id],
                  ret |-> [status |-> GetContentStatus(history, id),
                           http |-> StatusEndpoint(history, id)]]
    /\ UNCHANGED <<history, file, preferences, prefsFile, clock, nextId, pc, request,
                   routing_decision, plan, draft, quality_report, stages, call, peer>>

HistoryNext ==
    \/ SaveContentSessionCall
    \/ AddFeedbackCall
    \/ GetContentStatusCall

SpecHistory == HistoryInit /\ [][HistoryNext]_vars

\* process_feedback alone, on a pipeline that holds one stored session
SpecFeedback == HistoryInit /\ [][ProcessFeedback]_vars

\* ------------------------------------------------------------------ two writers of one history file

\* Two ContentHistory instances on data/content_history.json, each in its
\* own process: the one of the pipeline (history) and a second one (peer),
\* such as the pipeline of test_pipeline.py run beside the server.  Each call
\* of a method runs as one step; the disk does not fail here.
Writers == {"pipeline", "peer"}

HistoryOf(w) == IF w = "pipeline" THEN history ELSE peer

\* writer w now holds h2, the other writer holds what it held
WriterHolds(w, h2) ==
    /\ history' = IF w = "pipeline" THEN h2 ELSE history
    /\ peer' = IF w = "peer" THEN h2 ELSE peer

\* both processes start: ContentHistory.__init__ loads the file
WritersInit ==
    /\ file \in {MissingFile, JsonFile(JsonDump(<<StoredSession>>))}
    /\ history = LoadHistory(file)
    /\ peer = LoadHistory(file)
    /\ prefsFile = MissingFile
    /\ preferences = LoadPreferences(prefsFile)
    /\ clock = 1
    /\ nextId = 1
    /\ pc = "idle"
    /\ request = None
    /\ routing_decision = None
    /\ plan = None
    /\ draft = None
    /\ quality_report = None
    /\ stages = <<>>
    /\ last = NoCall
    /\ call = NoCall

\* a process restarts: ContentHistory() loads the file again
WriterConstruct ==
    /\ \E w \in Writers :
         /\ WriterHolds(w, LoadHistory(file))
         /\ last' = [op |-> "__init__", args |-> [writer |-> w], ret |-> ""]
    /\ UNCHANGED <<file, preferences, prefsFile, clock, nextId, pc, request,
                   routing_decision, plan, draft, quality_report, stages, call>>

\* writer w calls save_content_session
WriterSave ==
    /\ clock < MaxClock
    /\ \E w \in Writers, id \in HistoryIds :
         LET r == SaveContentSession(HistoryOf(w), file, SampleRequest(id), SampleDraft(id),
                                     SampleReport(id, TRUE), TRUE, clock, "ok")
         IN  /\ WriterHolds(w, r.history)
             /\ file' = r.file
             /\ last' = [op |-> "save_content_session",
                         args |-> [writer |-> w, request_id |-> id],
                         ret |-> r.error]
    /\ clock' = clock + 1
    /\ UNCHANGED <<preferences, prefsFile, nextId, pc, request, routing_decision,
                   plan, draft, quality_report, stages, call>>

\* writer w calls add_feedback
WriterFeedback ==
    /\ clock < MaxClock
    /\ \E w \in Writers, id \in HistoryIds, feedback \in HistoryFeedbacks :
         LET r == AddFeedback(HistoryOf(w), file, id, feedback, clock, "ok")
         IN  /\ WriterHolds(w, r.history)
             /\ file' = r.file
             /\ last' = [op |-> "add_feedback",
                         args |-> [writer |-> w, request_id |-> id, feedback |-> feedback],
                         ret |-> r.error]
    /\ clock' = clock + 1
    /\ UNCHANGED <<preferences, prefsFile, nextId, pc, request, routing_decision,
                   plan, draft, quality_report, stages, call>>

WritersNext ==
    \/ WriterConstruct
    \/ WriterSave
    \/ WriterFeedback

SpecWriters == WritersInit /\ [][WritersNext]_vars

\* ------------------------------------------------------------------ the functions alone

\* the sequences over S of length at most n
SeqsUpTo(S, n) == UNION {[1..k -> S] : k \in 0..n}

\* the state around a call of a function under test
CallInit(calls) ==
    /\ call \in calls
    /\ peer = None
    /\ last = NoCall
    /\ file = MissingFile
    /\ history = LoadHistory(file)
    /\ prefsFile = MissingFile
    /\ preferences = LoadPreferences(prefsFile)
    /\ clock = 0
    /\ nextId = 1
    /\ pc = "idle"
    /\ request = None
    /\ routing_decision = None
    /\ plan = None
    /\ draft = None
    /\ quality_report = None
    /\ stages = <<>>

\* the pending call returns ret
CallReturns(ret) ==
    /\ last' = [op |-> call.op, args |-> call.args, ret |-> ret]
    /\ call' = NoCall
    /\ UNCHANGED <<history, file, preferences, prefsFile, clock, nextId, pc, request,
                   routing_decision, plan, draft, quality_report, stages, peer>>

\* _extract_score on every text of a few characters
ScoreChars == {"0", "1", "9", ".", "-", "a"}

ScoreTexts == SeqsUpTo(ScoreChars, MaxScoreLen)

ScoreInit == CallInit({[op |-> "_extract_score", args |-> t] : t \in ScoreTexts})

ExtractScoreCall ==
    /\ call.op = "_extract_score"
    /\ CallReturns(ExtractScore(call.args))

SpecScore == ScoreInit /\ [][ExtractScoreCall]_vars

\* check_quality on every response of a few lines
QualityLines ==
    {Line("OVERALL_SCORE:", t) :
        t \in {<<" ", "8", "5">>, <<"1", "5", "0">>, <<"-", "5">>,
               <<"9", "9", ".", "5">>, <<"a">>, <<>>}}
    \cup {Line("Brand Voice:", <<" ", "9", "0">>),
          Line("Readability:", <<" ", "7", "0">>),
          Line("ISSUES:", <<>>),
          Line("ISSUES:", <<" ", "a">>),
          Line("SUGGESTIONS:", <<>>),
          Line("- ", <<"i">>),
          Line("- ", <<"j", " ">>),
          Line("- ", <<" ">>),
          Line("APPROVED:", <<" ", "YES">>),
          Line("APPROVED:", <<" ", "yes", " ">>),
          Line("APPROVED:", <<" ", "NO">>),
          Line("APPROVED:", <<"a">>),
          Line("APPROVED:", <<" ", "APPROVED:", " ", "YES">>),
          Line("", <<" ">>),
          Line("", <<"a">>)}

QualityCalls ==
    {[op |-> "check_quality", args |-> [draft |-> SampleDraft(1), llm |-> llm]] :
        llm \in {Raise(ApiError)}
                \cup {Return(r) : r \in SeqsUpTo(QualityLines, MaxQualityLines)}}

QualityInit == CallInit(QualityCalls)

CheckQualityCall ==
    /\ call.op = "check_quality"
    /\ CallReturns(CheckQuality(call.args.draft, call.args.llm))

SpecQuality == QualityInit /\ [][CheckQualityCall]_vars

\* check_quality on drafts of every shape analyze_content tells apart: the
\* title lengths around 30 and 60, the word counts around 300 and 1000,
\* with and without headers and list items, with and without tags
TitleOfLength(n) == [i \in 1..n |-> "x"]

SeoDrafts ==
    {[request_id |-> 1, title |-> TitleOfLength(n),
      content |-> [words |-> words, headers |-> headers, lists |-> lists],
      tags |-> tags, word_count |-> words, readability_score |-> 60] :
        n \in {0, 29, 30, 60, 61}, words \in {0, 299, 300, 999, 1000},
        headers \in BOOLEAN, lists \in BOOLEAN, tags \in {{}, {"k1", "k2"}}}

SeoCalls ==
    {[op |-> "check_quality", args |-> [draft |-> d, llm |-> Return(<<>>)]] :
        d \in SeoDrafts}

SeoInit == CallInit(SeoCalls)

SpecSeo == SeoInit /\ [][CheckQualityCall]_vars

\* create_plan on every response of a few lines
PlanLines ==
    {Line("TITLE:", <<" ", "T">>),
     Line("TITLE:", <<>>),
     Line("OUTLINE:", <<>>),
     Line("1.", <<" ", "p">>),
     Line("2.", <<"q">>),
     Line("TARGET_KEYWORDS:", <<"x", ",", " ", "y">>),
     Line("KEY_MESSAGES:", <<"m", ",", "n">>),
     Line("WORD_COUNT_TARGET:", <<" ", "5", "0", "0">>),
     Line("WORD_COUNT_TARGET:", <<"8", "0", "0", "-", "1", "0", "0", "0">>),
     Line("WORD_COUNT_TARGET:", <<"5", "sup2">>),
     Line("WORD_COUNT_TARGET:", <<"a">>),
     Line("TONE_NOTES:", <<" ", "w">>),
     Line("", <<" ">>),
     Line("", <<"a">>)}

PlanRequests ==
    {[request_id |-> 1, topic |-> <<"a">>, content_type |-> "ContentType.BLOG_POST",
      tone |-> tone, seo_keywords |-> <<>>] : tone \in {<<>>, <<"casual">>}}

PlanCalls ==
    {[op |-> "create_plan",
      args |-> [request |-> r, extracted |-> <<"k1", "k2">>, llm |-> llm, uuid |-> 2]] :
        r \in PlanRequests,
        llm \in {Raise(ApiError)}
                \cup {Return(x) : x \in SeqsUpTo(PlanLines, MaxPlanLines)}}

PlanInit == CallInit(PlanCalls)

CreatePlanCall ==
    /\ call.op = "create_plan"
    /\ CallReturns(CreatePlan(call.args.request, call.args.extracted,
                              call.args.llm, call.args.uuid))

SpecPlan == PlanInit /\ [][CreatePlanCall]_vars

\* create_plan on requests with and without seo_keywords, with few and many
\* keywords extracted from the topic, on responses with and without a
\* TARGET_KEYWORDS: line
KeywordLines ==
    {Line("TARGET_KEYWORDS:", <<"x", ",", " ", "y">>),
     Line("TARGET_KEYWORDS:", <<>>),
     Line("TITLE:", <<" ", "T">>)}

KeywordCalls ==
    {[op |-> "create_plan",
      args |-> [request |-> [request_id |-> 1, topic |-> <<"a">>,
                             content_type |-> "ContentType.BLOG_POST",
                             tone |-> <<>>, seo_keywords |-> kw],
                extracted |-> extracted, llm |-> llm, uuid |-> 2]] :
        kw \in {<<>>, <<"k">>, <<"k", "j", "k">>},
        extracted \in {<<>>, <<"k1", "k2">>, <<"k1", "k2", "k3", "k4", "k5">>,
                       <<"k1", "k2", "k3", "k4", "k5", "k6">>},
        llm \in {Raise(ApiError)}
                \cup {Return(x) : x \in SeqsUpTo(KeywordLines, MaxPlanLines)}}

KeywordInit == CallInit(KeywordCalls)

SpecKeywords == KeywordInit /\ [][CreatePlanCall]_vars

\* get_successful_content on histories of sessions on both sides of each
\* test (approved or not, score just below 80 or 80, either content type),
\* kept in memory or loaded from the file, short or with a run of successful
\* sessions long enough to pass the limit; session i has request_id i
SessionKinds ==
    [approved : BOOLEAN, score : {Score(80) - 1, Score(80)},
     content_type : {"ContentType.BLOG_POST", "ContentType.SOCIAL_MEDIA"}]

SuccessfulKind ==
    [approved |-> TRUE, score |-> Score(85), content_type |-> "ContentType.BLOG_POST"]

SessionOfKind(kind, i) ==
    NewSession([SampleRequest(i) EXCEPT !.content_type = kind.content_type],
               SampleDraft(i),
               [SampleReport(i, kind.approved) EXCEPT !.overall_score = kind.score],
               kind.approved, i)

SuccessHistories ==
    LET SessionsOf(kinds) == [i \in 1..Len(kinds) |-> SessionOfKind(kinds[i], i)]
    IN  UNION {{SessionsOf(mixed \o [i \in 1..n |-> SuccessfulKind]),
                SessionsOf([i \in 1..n |-> SuccessfulKind] \o mixed),
                JsonDump(SessionsOf(mixed \o [i \in 1..n |-> SuccessfulKind])),
                JsonDump(SessionsOf([i \in 1..n |-> SuccessfulKind] \o mixed))} :
              mixed \in SeqsUpTo(SessionKinds, MaxMixed), n \in {0, MaxRun}}

SuccessCalls ==
    {[op |-> "get_successful_content", args |-> [content_type |-> t]] :
        t \in {None, <<"blog_post">>, <<"social_media">>}}

SuccessInit ==
    /\ history \in SuccessHistories
    /\ file = JsonFile(JsonDump(history))
    /\ call \in SuccessCalls
    /\ peer = None
    /\ last = NoCall
    /\ prefsFile = MissingFile
    /\ preferences = LoadPreferences(prefsFile)
    /\ clock = 0
    /\ nextId = 1
    /\ pc = "idle"
    /\ request = None
    /\ routing_decision = None
    /\ plan = None
    /\ draft = None
    /\ quality_report = None
    /\ stages = <<>>

GetSuccessfulContentCall ==
    /\ call.op = "get_successful_content"
    /\ CallReturns(GetSuccessfulContent(history, call.args.content_type))

SpecSuccessful == SuccessInit /\ [][GetSuccessfulContentCall]_vars

\* ------------------------------------------------------------------ two runs of one request

\* the stages of process_request, by the method each one calls
StageOrder ==
    <<"route_request", "create_plan", "write_content", "check_quality",
      "save_content_session">>

\* what one process_request call leaves: the payload, the history list and
\* file, and the names of the stages it invoked
Outcome(payload, h, f, names) ==
    [payload |-> payload, history |-> h, file |-> f, stages |-> names]

\* each operator below is process_request from one stage on, given what the
\* stages before it returned
ProcessRequestSaved(req, h, f, rd, p, d, qr, saved) ==
    IF saved.error # ""
    THEN Outcome(FailurePayload(saved.error), saved.history, saved.file, StageOrder)
    ELSE Outcome(SuccessPayload(req, rd.value, p.value, d.value, qr.value),
                 saved.history, saved.file, StageOrder)

ProcessRequestChecked(req, h, f, now, env, rd, p, d, qr) ==
    IF ~qr.ok
    THEN Outcome(FailurePayload(qr.error), h, f, SubSeq(StageOrder, 1, 4))
    ELSE ProcessRequestSaved(req, h, f, rd, p, d, qr,
                             SaveContentSession(h, f, req, d.value, qr.value,
                                                qr.value.approved, now, env.io))

ProcessRequestWritten(req, h, f, now, env, rd, p, d) ==
    IF ~d.ok
    THEN Outcome(FailurePayload(d.error), h, f, SubSeq(StageOrder, 1, 3))
    ELSE ProcessRequestChecked(req, h, f, now, env, rd, p, d,
                               CheckQuality(d.value, env.quality))

ProcessRequestPlanned(req, h, f, now, env, rd, p) ==
    IF ~p.ok
    THEN Outcome(FailurePayload(p.error), h, f, SubSeq(StageOrder, 1, 2))
    ELSE ProcessRequestWritten(req, h, f, now, env, rd, p,
                               WriteContent(p.value, env.writer, env.readability))

ProcessRequestRouted(req, h, f, now, uuid, env, rd) ==
    IF ~rd.ok
    THEN Outcome(FailurePayload(rd.error), h, f, <<"route_request">>)
    ELSE ProcessRequestPlanned(req, h, f, now, env, rd,
                               CreatePlan(req, env.extracted, env.planner, uuid))

\* ContentPipeline.process_request as a function of the request, the stores
\* and what the call meets: env holds the replies of the four LLM calls, the
\* extracted keywords, the readability and the outcome of the history write
ProcessRequest(req, h, f, now, uuid, env) ==
    ProcessRequestRouted(req, h, f, now, uuid, env, RouteRequest(req, env.router))

\* the replies of the router's LLM call that are texts
RouterTexts == {r \in RouterReplies : r.ok}

\* the same request processed twice from the same stores, the two runs
\* meeting the same replies except for the router's text
RoutingCalls ==
    {[op |-> "process_request",
      args |-> [request |-> [request_id |-> 1] @@ r,
                routers |-> <<r1, r2>>,
                env |-> [planner |-> planner, extracted |-> extracted, writer |-> writer,
                         readability |-> readability, quality |-> quality, io |-> io]]] :
        r \in Requests, r1 \in RouterTexts, r2 \in RouterTexts,
        planner \in PlannerReplies, extracted \in ExtractedKeywords,
        writer \in WriterReplies, readability \in Readabilities,
        quality \in QualityReplies, io \in IoOutcomes}

RoutingInit == CallInit(RoutingCalls)

ProcessRequestTwice ==
    /\ call.op = "process_request"
    /\ LET run(router) == ProcessRequest(call.args.request, <<>>, MissingFile, 0, 2,
                                         [router |-> router] @@ call.args.env)
       IN  CallReturns(<<run(call.args.routers[1]), run(call.args.routers[2])>>)

SpecRouting == RoutingInit /\ [][ProcessRequestTwice]_vars

\* ------------------------------------------------------------------ claims on the pipeline

PcOrder == <<"route", "plan", "write", "check", "save">>

Returned(op) == pc = "idle" /\ last.op = op

\* C1: the stages of one process_request call are invoked in the fixed order
\* route_request, create_plan, write_content, check_quality,
\* save_content_session: the i-th stage invoked is the i-th of that order
\* (none skipped, repeated or retried), every stage before the latest one
\* has returned normally, the stage to run next is the one after the latest,
\* and a call that ends without an exception has run all five.
C1_StagesInFixedOrder ==
    /\ Len(stages) <= Len(StageOrder)
    /\ \A i \in 1..Len(stages) : stages[i].stage = StageOrder[i]
    /\ \A i \in 1..(Len(stages) - 1) : stages[i].raised = ""
    /\ pc # "idle" => Len(stages) < Len(PcOrder) /\ pc = PcOrder[Len(stages) + 1]
    /\ (pc = "idle" /\ stages # <<>> /\ stages[Len(stages)].raised = "")
           => Len(stages) = Len(StageOrder)

C1_Witness ==
    /\ pc = "idle"
    /\ Len(stages) = 5
    /\ stages[5].raised = ""
    /\ Len(history) = 2

\* C2: when a stage of process_request raises, it is the last stage invoked
\* for that request, and process_request returns (never raises) the payload
\* success=False with error equal to the text of that exception; when no
\* stage raises the payload has success=True.
C2_StageFailureAborts ==
    Returned("process_request") =>
        LET n == Len(stages)
        IN  /\ n >= 1
            /\ \A i \in 1..(n - 1) : stages[i].raised = ""
            /\ "success" \in DOMAIN last.ret
            /\ stages[n].raised # ""
                   => /\ last.ret.success = FALSE
                      /\ last.ret.error = stages[n].raised
            /\ stages[n].raised = "" => last.ret.success = TRUE

C2_Witness ==
    /\ Returned("process_request")
    /\ Len(stages) = 4
    /\ stages[4].raised = ApiError
    /\ last.ret.success = FALSE

\* C3: a process_request call that returns success=True has appended exactly
\* one session, in the save step that follows the quality check and in no
\* other step of the call; the session holds the request, the draft and the
\* quality report of the call (the draft and report of the payload), with
\* feedback None and approved equal to the report's approved flag.
C3_SuccessAppendsOneSession ==
    [][/\ (pc \notin {"idle", "save"}) => history' = history
       /\ (pc = "save" /\ last'.ret.success)
              => /\ Len(stages) = 4
                 /\ stages[4] = Invoked("check_quality", "")
                 /\ Len(history') = Len(history) + 1
                 /\ SubSeq(history', 1, Len(history)) = history
                 /\ LET session == history'[Len(history')]
                    IN  /\ session.request = request
                        /\ session.request = last'.args
                        /\ session.draft = draft
                        /\ session.draft = last'.ret.draft
                        /\ session.quality_report = quality_report
                        /\ session.quality_report = last'.ret.quality_report
                        /\ session.feedback = None
                        /\ session.approved = last'.ret.quality_report.approved
      ]_vars

C3_Witness ==
    /\ Returned("process_request")
    /\ last.ret.success
    /\ Len(history) = 2
    /\ history[2].approved
    /\ history[2].draft = last.ret.draft

\* C6: the plan made by create_plan carries the id of the request it was
\* made from.
C6_PlanKeyedByRequestId ==
    plan # None => plan.request_id = request.request_id

\* C7: after process_request returns success=True with request_id r, the
\* first session found under r is the one that call saved and
\* get_content_status(r) reports found with that call's overall score; after
\* process_feedback(r, fb) for the id r of a saved session,
\* get_content_status(r) reports fb (with its timestamp) as the feedback of
\* that one session.
C7_SavedSessionFoundById ==
    /\ (last.op = "process_request" /\ last.ret.success)
           => LET r == last.ret.request_id
                  st == GetContentStatus(history, r)
              IN  /\ Matching(history, r) = {Len(history)}
                  /\ history[Len(history)].request = last.args
                  /\ st.found
                  /\ st.quality_score = last.ret.quality_report.overall_score
    /\ (last.op = "process_feedback"
        /\ Matching(history, last.args.request_id) # {})
           => LET r == last.args.request_id
                  fb == last.args.feedback
                  st == GetContentStatus(history, r)
              IN  /\ Cardinality(Matching(history, r)) = 1
                  /\ st.found
                  /\ DOMAIN st.feedback = DOMAIN fb \cup {"timestamp"}
                  /\ \A k \in DOMAIN fb \ {"timestamp"} : st.feedback[k] = fb[k]

C7_Witness ==
    /\ last.op = "process_feedback"
    /\ last.ret.success
    /\ Len(history) = 1
    /\ last.args.request_id = history[1].draft.request_id
    /\ GetContentStatus(history, last.args.request_id).feedback # None
    /\ GetContentStatus(history, last.args.request_id).feedback.approved

\* C13: every success payload of process_request holds the draft with its
\* word_count, the quality report with its overall_score, and
\* requires_human_review, which is true exactly when the report's approved
\* flag is false.
C13_SuccessPayloadFields ==
    (last.op = "process_request" /\ last.ret.success) =>
        /\ {"draft", "quality_report", "requires_human_review"} \subseteq DOMAIN last.ret
        /\ "word_count" \in DOMAIN last.ret.draft
        /\ "overall_score" \in DOMAIN last.ret.quality_report
        /\ last.ret.requires_human_review \in BOOLEAN
        /\ last.ret.requires_human_review <=> ~last.ret.quality_report.approved

C13_Witness ==
    /\ last.op = "process_request"
    /\ last.ret.success
    /\ last.ret.requires_human_review
    /\ ~last.ret.quality_report.approved
    /\ last.ret.quality_report.overall_score = 100 * ScoreUnit
    /\ last.ret.draft.word_count = 350

\* C16: the draft carries the id of the plan it was written from and the
\* quality report the id of the draft it was made for, so the draft and the
\* quality report of every stored session carry the same id.
C16_DraftAndReportShareId ==
    /\ draft # None => draft.request_id = plan.request_id
    /\ quality_report # None => quality_report.request_id = draft.request_id
    /\ \A i \in 1..Len(history) :
           history[i].draft.request_id = history[i].quality_report.request_id

C16_Witness ==
    /\ pc = "save"
    /\ quality_report.request_id = plan.request_id
    /\ draft.request_id = plan.request_id
    /\ Len(history) = 1
    /\ history[1].quality_report.request_id = history[1].draft.request_id
    /\ history[1].draft.request_id # draft.request_id

\* C17: a process_request call that returns success=False leaves the
\* in-memory history and the history file as they were before the call: no
\* step before the return changes them, and neither does the step that
\* fails.
C17_FailedRequestLeavesNoSession ==
    [][/\ (pc # "idle" /\ pc' # "idle") => (history' = history /\ file' = file)
       /\ (pc # "idle" /\ pc' = "idle" /\ ~last'.ret.success)
              => (history' = history /\ file' = file)
      ]_vars

\* C18: feedback never changes the approved flag of a session: across every
\* process_feedback call each session keeps its flag and get_content_status
\* reports the same status for every id as before, and at all times the
\* flag of a stored session is the approved value of its quality report, so
\* the reported status is "approved" exactly when the quality checker
\* approved.
C18_FeedbackKeepsApproved ==
    [][/\ last'.op = "process_feedback" =>
            /\ Len(history') = Len(history)
            /\ \A i \in 1..Len(history) : history'[i].approved = history[i].approved
            /\ \A id \in CallerIds(history) :
                   LET before == GetContentStatus(history, id)
                       after == GetContentStatus(history', id)
                   IN  /\ after.found = before.found
                       /\ before.found => after.status = before.status
       /\ \A i \in 1..Len(history') :
              LET session == history'[i]
                  st == GetContentStatus(history', session.draft.request_id)
              IN  /\ session.approved = session.quality_report.approved
                  /\ st.status = "approved" <=> session.quality_report.approved
      ]_vars

C18_Witness ==
    /\ last.op = "process_feedback"
    /\ last.ret.success
    /\ last.args.feedback = [approved |-> TRUE]
    /\ Len(history) = 1
    /\ last.args.request_id = history[1].draft.request_id
    /\ history[1].feedback # None
    /\ history[1].feedback.approved
    /\ ~history[1].approved
    /\ GetContentStatus(history, last.args.request_id).status = "pending_review"

\* C19: process_feedback with a request id that no session's draft carries
\* leaves the history list as it was and still writes the whole list to the
\* history file; when the file writes of the call succeed it returns
\* success=True, and in no case a not-found outcome: a failure payload
\* carries the error of the write that failed.
C19_UnmatchedFeedbackSucceeds ==
    [][(last'.op = "process_feedback"
        /\ \A i \in 1..Len(history) :
               history[i].draft.request_id # last'.args.request_id) =>
          LET io == last'.io
              written == io.history = "ok" /\ io.preferences = "ok"
          IN  /\ history' = history
              /\ io.history = "ok" => file' = JsonFile(JsonDump(history))
              /\ written => last'.ret = FeedbackSuccess
              /\ ~written => /\ last'.ret.success = FALSE
                             /\ last'.ret.error \in {"OSError: open", "OSError: write"}
      ]_vars

\* C19 as first stated: process_feedback with an unmatched request id leaves
\* the history as it was and returns success=True, whatever the disk does.
C19_UnmatchedAlwaysSucceeds ==
    [][(last'.op = "process_feedback"
        /\ \A i \in 1..Len(history) :
               history[i].draft.request_id # last'.args.request_id) =>
          /\ history' = history
          /\ last'.ret.success
      ]_vars

C19_Witness ==
    /\ last.op = "process_feedback"
    /\ last.args.request_id = 0
    /\ last.args.feedback = [approved |-> TRUE, tone |-> "casual"]
    /\ last.ret = FeedbackSuccess
    /\ Len(history) = 1
    /\ history[1].feedback = None
    /\ file = JsonFile(JsonDump(history))

\* C20: with every uuid4() fresh, the sessions that process_request calls
\* leave in the history carry pairwise distinct draft.request_id, so the id
\* match of add_feedback and get_content_status selects at most one session.
C20_DistinctDraftIds ==
    /\ \A i \in 1..Len(history), j \in 1..Len(history) :
           i # j => history[i].draft.request_id # history[j].draft.request_id
    /\ \A id \in CallerIds(history) : Cardinality(Matching(history, id)) <= 1

C20_Witness ==
    /\ pc = "idle"
    /\ Len(history) = 2
    /\ history[1].request.topic = history[2].request.topic
    /\ history[1].draft.request_id # history[2].draft.request_id
    /\ Cardinality(Matching(history, history[2].draft.request_id)) = 1

\* C21: the text the router's LLM call returns does not influence the rest
\* of process_request: two runs on the same request that differ only in
\* that text invoke the same stages, leave the same history list and file,
\* and return payloads that agree in every field but routing_decision.
C21_RoutingHasNoInfluence ==
    (last.op = "process_request" /\ call = NoCall /\ Len(last.ret) = 2) =>
        LET a == last.ret[1]
            b == last.ret[2]
        IN  /\ a.stages = b.stages
            /\ a.history = b.history
            /\ a.file = b.file
            /\ a.payload.success = b.payload.success
            /\ a.payload.success =>
                 /\ a.payload.request_id = b.payload.request_id
                 /\ a.payload.plan = b.payload.plan
                 /\ a.payload.draft = b.payload.draft
                 /\ a.payload.quality_report = b.payload.quality_report
                 /\ a.payload.requires_human_review = b.payload.requires_human_review
            /\ ~a.payload.success => a.payload.error = b.payload.error

\* ------------------------------------------------------------------ claims on the feedback handler

SuccessfulTones(prefs) == Get(prefs, "successful_tones", <<>>)

\* C28: process_feedback with approved false or absent leaves the user
\* preferences and their file as they were.  With approved true and the
\* feedback stored (the history file written), successful_tones grows by the
\* tone of the feedback when it has a tone key and the preferences stay as
\* they were otherwise, and the preferences file holds the preferences when
\* its write succeeds.  With approved true and the history write failing
\* nothing is learned.
C28_LearnsFromApprovedFeedback ==
    [][LET feedback == last'.args.feedback
           approved == Get(feedback, "approved", FALSE)
       IN  /\ ~approved => preferences' = preferences /\ prefsFile' = prefsFile
           /\ (approved /\ last'.io.history # "ok") =>
                  preferences' = preferences /\ prefsFile' = prefsFile
           /\ (approved /\ last'.io.history = "ok") =>
                  /\ preferences' =
                        IF "tone" \in DOMAIN feedback
                        THEN Put(preferences, "successful_tones",
                                 Append(SuccessfulTones(preferences), feedback.tone))
                        ELSE preferences
                  /\ Len(SuccessfulTones(preferences')) =
                        Len(SuccessfulTones(preferences))
                        + (IF "tone" \in DOMAIN feedback THEN 1 ELSE 0)
                  /\ last'.io.preferences = "ok" => prefsFile' = JsonFile(preferences')]_vars

C28_Witness ==
    /\ last.op = "process_feedback"
    /\ last.args.feedback = [approved |-> TRUE, tone |-> "casual"]
    /\ last.io = [history |-> "ok", preferences |-> "ok"]
    /\ last.ret.success
    /\ SuccessfulTones(preferences) = <<"casual", "casual">>
    /\ prefsFile = JsonFile(preferences)

\* C28 as first stated: whenever the feedback is approved the preferences
\* are saved and successful_tones grows by one entry for a tone key.
C28_ApprovedAlwaysSaved ==
    [][LET feedback == last'.args.feedback
           approved == Get(feedback, "approved", FALSE)
       IN  /\ ~approved => preferences' = preferences /\ prefsFile' = prefsFile
           /\ approved =>
                  /\ Len(SuccessfulTones(preferences')) =
                        Len(SuccessfulTones(preferences))
                        + (IF "tone" \in DOMAIN feedback THEN 1 ELSE 0)
                  /\ prefsFile' = JsonFile(preferences')]_vars

\* ------------------------------------------------------------------ claims on the history store

\* the fields of a session that no call changes once it is stored
Frozen(session) ==
    [timestamp |-> session.timestamp,
     request |-> session.request,
     draft |-> session.draft,
     quality_report |-> session.quality_report,
     approved |-> session.approved]

\* C4: the history is append-only under save_content_session and
\* add_feedback: its length never decreases, the stored sessions keep their
\* places and their timestamp, request, draft, quality_report and approved
\* fields, and save_content_session adds exactly one session, at the end,
\* changing nothing else (not even a feedback field).
C4_HistoryAppendOnly ==
    [][/\ Len(history') >= Len(history)
       /\ \A i \in 1..Len(history) : Frozen(history'[i]) = Frozen(history[i])
       /\ last'.op = "save_content_session"
              => /\ Len(history') = Len(history) + 1
                 /\ SubSeq(history', 1, Len(history)) = history
                 /\ history'[Len(history')].draft.request_id = last'.args.request_id
       /\ last'.op = "add_feedback" => Len(history') = Len(history)
      ]_vars

C4_Witness ==
    /\ last.op = "save_content_session"
    /\ Len(history) = 3
    /\ history[1].feedback # None
    /\ history[3].draft.request_id # history[1].draft.request_id

\* C5: add_feedback(request_id, feedback) sets the feedback of the first
\* session, in list order, whose draft.request_id equals request_id to the
\* given feedback plus a timestamp; every other session and every other
\* field of that session is left as it was, and with no such session the
\* whole list is.
C5_FeedbackOnFirstMatch ==
    [][last'.op = "add_feedback" =>
          LET id == last'.args.request_id
              fb == last'.args.feedback
              m == {i \in 1..Len(history) : history[i].draft.request_id = id}
          IN  IF m = {} THEN history' = history
              ELSE \E k \in m :
                     /\ \A j \in m : k <= j
                     /\ DOMAIN history'[k].feedback = DOMAIN fb \cup {"timestamp"}
                     /\ \A x \in DOMAIN fb : history'[k].feedback[x] = fb[x]
                     /\ history'[k].feedback.timestamp = clock
                     /\ Frozen(history'[k]) = Frozen(history[k])
                     /\ Len(history') = Len(history)
                     /\ \A i \in 1..Len(history) : i # k => history'[i] = history[i]
      ]_vars

C5_Witness ==
    /\ last.op = "add_feedback"
    /\ Len(history) = 3
    /\ history[1].draft.request_id # last.args.request_id
    /\ history[2].draft.request_id = last.args.request_id
    /\ history[3].draft.request_id = last.args.request_id
    /\ history[2].feedback # None
    /\ history[3].feedback = None

\* C15: get_content_status(id) reports found=False exactly when no session
\* of the history has draft.request_id = id; otherwise it reports the first
\* such session of the list: status "approved" when its approved flag is
\* true and "pending_review" otherwise, with its score, feedback and
\* timestamp.  The status endpoint answers 404 exactly when found is False
\* and otherwise 200 with that report.
C15_StatusOfFirstMatch ==
    last.op = "get_content_status" =>
        LET id == last.args.request_id
            st == last.ret.status
            m == {i \in 1..Len(history) : history[i].draft.request_id = id}
        IN  /\ st.found = (m # {})
            /\ (last.ret.http.code = 404) = ~st.found
            /\ m # {} =>
                 \E k \in m :
                   /\ \A j \in m : k <= j
                   /\ st.status = IF history[k].approved THEN "approved" ELSE "pending_review"
                   /\ st.quality_score = history[k].quality_report.overall_score
                   /\ st.feedback = history[k].feedback
                   /\ st.created_at = history[k].timestamp
                   /\ last.ret.http = [code |-> 200, body |-> st]

C15_Witness ==
    /\ last.op = "get_content_status"
    /\ Len(history) = 3
    /\ history[1].draft.request_id # last.args.request_id
    /\ history[2].draft.request_id = last.args.request_id
    /\ history[3].draft.request_id = last.args.request_id
    /\ ~history[2].approved
    /\ history[3].approved
    /\ last.ret.status.found
    /\ last.ret.status.status = "pending_review"
    /\ last.ret.http.code = 200

\* C14: after every save_content_session or add_feedback call that returns
\* normally the file holds the whole in-memory list, session for session
\* (never a part of it, never only the change), and a ContentHistory
\* constructed from that file loads a list equal to it.
C14_WholeFileRewrite ==
    (last.op \in {"save_content_session", "add_feedback"} /\ last.ret = "") =>
        /\ file.state = "json"
        /\ Len(file.data) = Len(history)
        /\ file.data = JsonDump(history)
        /\ PyEqual(LoadHistory(file), history)

C14_Witness ==
    /\ last.op = "add_feedback"
    /\ last.ret = ""
    /\ Len(history) = 3
    /\ history[2].feedback # None
    /\ history[3].feedback = None
    /\ history[3].request.content_type = "ContentType.BLOG_POST"
    /\ file.data[3].request.content_type = "blog_post"
    /\ file.data[2].feedback = history[2].feedback

\* the sessions of a list
Sessions(h) == {h[i] : i \in 1..Len(h)}

\* C12: nothing guards the history file against a second writer: a write by
\* one ContentHistory replaces the content of the file by that writer's own
\* list, so every session of the file that the writer does not hold (one
\* saved, or given feedback, by the other writer since this one loaded) is
\* absent from the file afterwards.
C12_WritersOverwrite ==
    [][last'.op \in {"save_content_session", "add_feedback"} =>
          LET w == last'.args.writer
              own == IF w = "pipeline" THEN history' ELSE peer'
              held == IF w = "pipeline" THEN history ELSE peer
          IN  /\ last'.ret = ""
              /\ file' = JsonFile(JsonDump(own))
              /\ \A s \in Sessions(LoadHistory(file)) \ Sessions(JsonDump(held)) :
                     s \notin Sessions(LoadHistory(file'))
      ]_vars

\* a lost update: the pipeline saved a session into the file, and after the
\* peer's write the file no longer holds it
C12_Witness ==
    /\ last.op = "save_content_session"
    /\ last.args.writer = "peer"
    /\ last.ret = ""
    /\ file.state = "json"
    /\ Len(history) = 2
    /\ history[2].timestamp = 1
    /\ JsonDump(history)[2] \notin Sessions(file.data)
    /\ JsonDump(history)[1] \in Sessions(file.data)

\* the sessions get_successful_content is to return: those of h that pass
\* the three tests, the last SuccessfulLimit of them, in the order of h
ExpectedSuccessful(h, content_type) ==
    LET idx == {i \in 1..Len(h) :
                   /\ h[i].approved = TRUE
                   /\ h[i].quality_report.overall_score >= 80 * ScoreUnit
                   /\ content_type # None =>
                          EnumValue(h[i].request.content_type) = content_type[1]}
        kept == {i \in idx : Cardinality({j \in idx : j > i}) < SuccessfulLimit}
    IN  [k \in 1..Cardinality(kept) |->
            h[CHOOSE i \in kept : Cardinality({j \in kept : j <= i}) = k]]

\* C27: get_successful_content(content_type) returns, in history order, the
\* last 10 of the sessions that are approved, have an overall score of at
\* least 80 and, when a content type is given, are of that type; the
\* history and its file stay as they were.
C27_SuccessfulContent ==
    [][call.op = "get_successful_content" =>
          /\ last'.ret = ExpectedSuccessful(history, call.args.content_type)
          /\ history' = history
          /\ file' = file]_vars

C27_Witness ==
    /\ last.op = "get_successful_content"
    /\ last.args.content_type = <<"blog_post">>
    /\ Len(history) = 11
    /\ Len(last.ret) = 10
    /\ last.ret[1].request.request_id = 2
    /\ last.ret[10].request.request_id = 11

\* ------------------------------------------------------------------ claims on the parsers

RECURSIVE DecimalValue(_, _, _)
\* the number the digits text[i..j] write
DecimalValue(text, i, j) ==
    IF i > j THEN 0
    ELSE DigitValue(text[i]) * (10 ^ (j - i)) + DecimalValue(text, i + 1, j)

\* text[i..j] is a run of digits that no digit follows
IsDigitRun(text, i, j) ==
    /\ i <= j
    /\ j <= Len(text)
    /\ \A p \in i..j : text[p] \in Digit
    /\ j < Len(text) => text[j + 1] \notin Digit

\* C8: the overall_score of every QualityReport check_quality builds lies
\* between 0 and 100, whatever the text of the LLM response.
C8_OverallScoreInRange ==
    (last.op = "check_quality" /\ last.ret.ok)
        => /\ last.ret.value.overall_score >= 0
           /\ last.ret.value.overall_score <= 100 * ScoreUnit

C8_Witness ==
    /\ last.op = "check_quality"
    /\ last.ret.ok
    /\ last.args.llm.value = <<Line("ISSUES:", <<>>), Line("OVERALL_SCORE:", <<"1", "5", "0">>)>>
    /\ last.ret.value.overall_score = 100 * ScoreUnit

\* C9: _extract_score(text) is 75 when text holds no digit; otherwise it is
\* the value of the first numeric substring (the run of digits at the first
\* digit of the text, with the decimal part that follows it if any), or 100
\* when that value is above 100.  What follows that substring is ignored.
C9_FirstNumberCapped ==
    last.op = "_extract_score" =>
        LET text == last.args
            n == Len(text)
        IN  IF \A p \in 1..n : text[p] \notin Digit
            THEN last.ret = 75 * ScoreUnit
            ELSE \E i \in 1..n, j \in 1..n :
                   /\ \A p \in 1..(i - 1) : text[p] \notin Digit
                   /\ IsDigitRun(text, i, j)
                   /\ LET decimal == j + 2 <= n /\ text[j + 1] = "." /\ text[j + 2] \in Digit
                          whole == DecimalValue(text, i, j) * ScoreUnit
                      IN  \E k \in 1..n :
                            /\ decimal => IsDigitRun(text, j + 2, k)
                            /\ LET value == IF decimal
                                            THEN whole + DecimalValue(text, j + 2, k)
                                                         * (10 ^ (FracDigits - (k - j - 1)))
                                            ELSE whole
                               IN  last.ret = IF value > 100 * ScoreUnit
                                              THEN 100 * ScoreUnit ELSE value

C9_Witness ==
    /\ last.op = "_extract_score"
    /\ last.args = <<"9", "a", "1", "0">>
    /\ last.ret = 9 * ScoreUnit

\* a list item stands after a bare ISSUES: or SUGGESTIONS: line
ItemCollected(lines) ==
    \E i \in 1..Len(lines), j \in 1..Len(lines) :
        /\ i < j
        /\ lines[i].head \in {"ISSUES:", "SUGGESTIONS:"}
        /\ Strip(lines[i].rest) = <<>>
        /\ lines[j].head = "- "
        /\ Strip(lines[j].rest) # <<>>

C22_BrandVoiceFallback ==
    (last.op = "check_quality" /\ last.args.llm.ok /\ last.ret.ok
     /\ \A i \in 1..Len(last.args.llm.value) :
            last.args.llm.value[i].head # "Brand Voice:")
        => last.ret.value.brand_voice_score = 80 * ScoreUnit

\* C23: check_quality gives analyze_content no keywords, so the seo_score
\* of its report holds no keyword points whatever tags the draft carries:
\* it is 20, plus 15 for a title of 30 to 60 characters, plus 10 for 300
\* words and 5 more for 1000, plus 10 for headers and 10 for list items,
\* hence at least 20 and at most 70.
C23_SeoScoreWithoutKeywords ==
    (last.op = "check_quality" /\ last.ret.ok) =>
        LET d == last.args.draft
            n == TextLen(d.title)
            seo == last.ret.value.seo_score
        IN  /\ seo >= 20
            /\ seo <= 70
            /\ seo = 20 + (IF n >= 30 /\ n <= 60 THEN 15 ELSE 0)
                        + (IF d.content.words >= 300 THEN 10 ELSE 0)
                        + (IF d.content.words >= 1000 THEN 5 ELSE 0)
                        + (IF d.content.headers THEN 10 ELSE 0)
                        + (IF d.content.lists THEN 10 ELSE 0)

C23_Witness ==
    /\ last.op = "check_quality"
    /\ last.ret.ok
    /\ last.args.draft.tags = {"k1", "k2"}
    /\ last.args.draft.content.words = 1000
    /\ TextLen(last.args.draft.title) = 60
    /\ last.ret.value.seo_score = 70

\* C24: the target keywords of the plan are request.seo_keywords, as they
\* are, when that list is not empty, and otherwise the first 5 (or all, if
\* fewer) of the keywords extracted from the topic; what the LLM response
\* holds, its TARGET_KEYWORDS: line included, does not change them.
C24_KeywordsFromRequest ==
    (last.op = "create_plan" /\ last.ret.ok) =>
        LET req == last.args.request
            extracted == last.args.extracted
            kws == last.ret.value.target_keywords
        IN  IF req.seo_keywords # <<>>
            THEN kws = req.seo_keywords
            ELSE /\ Len(kws) <= 5
                 /\ Len(kws) = IF Len(extracted) < 5 THEN Len(extracted) ELSE 5
                 /\ \A i \in 1..Len(kws) : kws[i] = extracted[i]

C24_Witness ==
    /\ last.op = "create_plan"
    /\ last.ret.ok
    /\ last.args.request.seo_keywords = <<>>
    /\ Len(last.args.extracted) = 6
    /\ last.args.llm.value = <<Line("TARGET_KEYWORDS:", <<"x", ",", " ", "y">>)>>
    /\ last.ret.value.target_keywords = <<"k1", "k2", "k3", "k4", "k5">>

\* the line, stripped, starts with "- ": text follows the dash
IsItemLine(l) == l.head = "- " /\ Strip(l.rest) # <<>>

IsSectionHeader(l) == l.head \in {"ISSUES:", "SUGGESTIONS:"} /\ Strip(l.rest) = <<>>

\* the most recent section header before line i, "" when there is none
SectionBefore(lines, i) ==
    LET hs == {j \in 1..(i - 1) : IsSectionHeader(lines[j])}
    IN  IF hs = {} THEN "" ELSE lines[SetMax(hs)].head

\* the lines numbered in idx, stripped of the dash, in response order
ItemsAt(lines, idx) ==
    [k \in 1..Cardinality(idx) |->
        Strip(lines[CHOOSE i \in idx : Cardinality({j \in idx : j <= i}) = k].rest)]

ItemsUnder(lines, header) ==
    ItemsAt(lines, {i \in 1..Len(lines) :
                       IsItemLine(lines[i]) /\ SectionBefore(lines, i) = header})

DashLinesUnder(lines, header) ==
    ItemsAt(lines, {i \in 1..Len(lines) :
                       lines[i].head = "- " /\ SectionBefore(lines, i) = header})

\* C25: every line that starts with "- " once it is stripped (text follows
\* the dash) is collected, in response order, in issues when the most
\* recent section header before it is ISSUES:, in suggestions when it is
\* SUGGESTIONS:, and in neither list when no header came before it; the
\* lists hold nothing else, so no item is in both.
C25_ItemsFollowSection ==
    (last.op = "check_quality" /\ last.args.llm.ok) =>
        /\ last.ret.ok
        /\ last.ret.value.issues = ItemsUnder(last.args.llm.value, "ISSUES:")
        /\ last.ret.value.suggestions = ItemsUnder(last.args.llm.value, "SUGGESTIONS:")

C25_Witness ==
    /\ last.op = "check_quality"
    /\ last.args.llm.ok
    /\ last.args.llm.value = <<Line("- ", <<"i">>), Line("SUGGESTIONS:", <<>>),
                                Line("- ", <<"j", " ">>)>>
    /\ last.ret.ok
    /\ last.ret.value.issues = <<>>
    /\ last.ret.value.suggestions = << <<"j">> >>

\* C25 as first stated: every line that starts with "- ", a dash followed
\* by blanks alone included, is collected under the section before it.
C25_EveryDashLineCollected ==
    (last.op = "check_quality" /\ last.args.llm.ok) =>
        /\ last.ret.ok
        /\ last.ret.value.issues = DashLinesUnder(last.args.llm.value, "ISSUES:")
        /\ last.ret.value.suggestions = DashLinesUnder(last.args.llm.value, "SUGGESTIONS:")

\* C26: the report is approved exactly when the response holds an APPROVED:
\* line and what follows APPROVED: on the last such line, stripped and in
\* upper case, is YES, TRUE, 1 or APPROVED.
C26_ApprovedOnExplicitVerdict ==
    (last.op = "check_quality" /\ last.args.llm.ok /\ last.ret.ok) =>
        (last.ret.value.approved <=>
            \E i \in 1..Len(last.args.llm.value) :
                /\ last.args.llm.value[i].head = "APPROVED:"
                /\ \A j \in (i + 1)..Len(last.args.llm.value) :
                       last.args.llm.value[j].head # "APPROVED:"
                /\ Upper(Strip(last.args.llm.value[i].rest)) \in ApprovedWords)

HasLine(lines, h) == \E i \in 1..Len(lines) : lines[i].head = h

\* a numbered line stands after an OUTLINE: line
OutlineCollected(lines) ==
    \E i \in 1..Len(lines), j \in 1..Len(lines) :
        i < j /\ lines[i].head = "OUTLINE:" /\ lines[j].head \in NumberedHeads

\* C10: create_plan fills each field the plan response omits with its
\* default, whatever the other lines are: title "Content about <topic>"
\* without a TITLE: line, outline [] when no numbered line was collected,
\* word_count_target 800 without a WORD_COUNT_TARGET: line, tone
\* request.tone or "professional" without a TONE_NOTES: line, key_messages []
\* without a KEY_MESSAGES: line; and a response without these fields (any
\* response without a WORD_COUNT_TARGET: line) yields a plan.
C10_PlannerDefaults ==
    (last.op = "create_plan" /\ last.args.llm.ok) =>
        LET lines == last.args.llm.value
            req == last.args.request
            p == last.ret.value
        IN  /\ ~HasLine(lines, "WORD_COUNT_TARGET:") => last.ret.ok
            /\ last.ret.ok =>
                 /\ ~HasLine(lines, "TITLE:") => p.title = <<"Content about ">> \o req.topic
                 /\ ~OutlineCollected(lines) => p.outline = <<>>
                 /\ ~HasLine(lines, "WORD_COUNT_TARGET:") => p.word_count_target = 800
                 /\ ~HasLine(lines, "TONE_NOTES:")
                        => p.tone = IF req.tone # <<>> THEN req.tone ELSE <<"professional">>
                 /\ ~HasLine(lines, "KEY_MESSAGES:") => p.key_messages = <<>>

C10_Witness ==
    /\ last.op = "create_plan"
    /\ last.args.llm.ok
    /\ last.args.llm.value = <<Line("1.", <<" ", "p">>), Line("KEY_MESSAGES:", <<"m", ",", "n">>)>>
    /\ last.args.request.tone = <<"casual">>
    /\ last.ret.ok
    /\ last.ret.value.tone = <<"casual">>
    /\ last.ret.value.outline = <<>>
    /\ last.ret.value.word_count_target = 800
    /\ last.ret.value.key_messages = <<<<"m">>, <<"n">>>>

====
